---- MODULE Spec2Model ----
(***************************************************************************)
(* Model of the JTAG DPI socket bridge (jtag_dpi.cpp): the module-level    *)
(* state, the three entry points jtag_dpi_init / jtag_dpi_tick /           *)
(* jtag_dpi_terminate, and the TCP client and transport faults around it.  *)
(***************************************************************************)
EXTENDS Integers, Sequences, FiniteSets, TLC

\* ------------------------------------------------------------------ bounds

\* Most bytes a client may have in flight (sent, not yet read by recv).
MaxQueue == 2

\* Largest positive half-period handed to jtag_dpi_init.
MaxHalfPeriod == 2

\* ------------------------------------------------------- program constants

RET_SUCCESS == 0
RET_FAILURE == 1
CLOCK_NOTIFICATION_MSG == 255
NoSocket == -1
\* The descriptors socket() and accept4() hand out (any value other than -1).
ListenFd == 3
ConnFd == 4
\* uint16_t s_listening_tcp_port keeps 16 bits of the int argument.
PortModulus == 65536

cs_invalid == "cs_invalid"
cs_waiting_to_receive_commands == "cs_waiting_to_receive_commands"
cs_waiting_to_send_clock_notification == "cs_waiting_to_send_clock_notification"

\* ------------------------------------------------------------ environment

\* Bytes a client sends: every signal-data byte, both commands, and invalid
\* bytes of each kind (bits 4, 5, 6 alone and together, with and without low
\* bits; bit 7 set other than 0x80 and 0x81).
InvalidBytes == {16, 32, 64, 25, 127, 130, 144, 255}

\* One client speaks one vocabulary. Two clients mix everything: the two
\* commands, a signal-data byte and its complement, and an invalid byte. The
\* others cover the remaining signal-data bytes (a byte and its complement)
\* and the remaining invalid bytes (each with the notification request).
Vocabularies ==
    {{128, 129, 1, 14, 16}, {128, 129, 8, 7, 130}}
    \cup {{s, 15 - s} : s \in {0, 2, 3, 4, 5, 6}}
    \cup {{x, 129} : x \in InvalidBytes \ {16, 130}}
ClientBytes == UNION Vocabularies

\* Half-period arguments: a negative one, zero, and 1..MaxHalfPeriod.
HalfPeriodArgs == {-1, 0} \cup (1..MaxHalfPeriod)

\* Arguments of jtag_dpi_init: <<tcp_port, listen_on_local_addr_only,
\* jtag_tck_half_period_tick_count, print_informational_messages>>.
\* A simulation passes the same arguments to every call.
InitArgs == {<<4567, 1, h, 0>> : h \in HalfPeriodArgs}

\* A harness that passes different arguments to different calls: two valid
\* configurations that differ in every argument, a port of 2^16, and calls
\* with one invalid argument each (port 0, a flag of 2, half-period 0), the
\* last of them after three arguments that differ from the first configuration.
AnyArgs == <<0, 0, 0, 0>>
LifecycleArgs ==
    {<<4567, 1, 1, 0>>, <<4568, 0, 2, 1>>, <<65536, 1, 1, 0>>,
     <<0, 0, 2, 1>>, <<4568, 0, 2, 2>>, <<4568, 2, 2, 1>>, <<4568, 0, 0, 1>>}
\* Its client writes the signals and requests the notification.
LifecycleVocab == {1, 129}

\* --------------------------------------------------------- bit operations

\* received_data & mask != 0 for a one-bit mask 2^k
BitSet(b, k) == (b \div (2 ^ k)) % 2 = 1

\* received_data & 0x80
IsCommandByte(b) == BitSet(b, 7)

\* 0 != ( received_data & 0xf0 )
HasHighNibble_Bit4Only(b) == BitSet(b, 4)
HasHighNibble(b) == (b \div 16) % 16 # 0

\* received_data | 0x10
AckByte(b) == IF BitSet(b, 4) THEN b ELSE b + 16

\* ( received_data & 0x01 ) ? 1 : 0  etc.
BitOf(b, k) == IF BitSet(b, k) THEN 1 ELSE 0

\* ------------------------------------------------------------------ state

VARIABLES
    s_already_initialized,
    s_listening_tcp_port,
    s_listen_on_local_addr_only,
    s_print_informational_messages,
    s_jtag_tck_half_period_tick_count,
    s_listeningSocket,
    s_connectionSocket,
    s_connectionState,
    s_clock_notification_counter,
    jtag_tms, jtag_tck, jtag_trst, jtag_tdi,  \* the caller's output signals
    client,       \* the TCP client: "none", "pending" (in the accept queue), "connected"
    rx,           \* bytes the client has sent that recv() has not returned yet
    peerClosed,   \* the client has closed its end (recv returns 0 once rx is drained)
    sinceWrite,   \* history: ticks since this connection's last signal write (-1: none)
    reqCount,     \* history: the counter when the pending 0x81 started to wait
    reqAge,       \* history: ticks since the pending 0x81 started to wait
    vocab,        \* the bytes the client may send
    harness,      \* the arguments the simulation passes to jtag_dpi_init
    last          \* the most recent step, if it was a call of an entry point

vars == <<s_already_initialized, s_listening_tcp_port, s_listen_on_local_addr_only,
          s_print_informational_messages, s_jtag_tck_half_period_tick_count,
          s_listeningSocket, s_connectionSocket, s_connectionState,
          s_clock_notification_counter, jtag_tms, jtag_tck, jtag_trst, jtag_tdi,
          client, rx, peerClosed, sinceWrite, reqCount, reqAge, vocab, harness, last>>

\* The four output signals as one value.
Signals(tms, tck, trst, tdi) == [tms |-> tms, tck |-> tck, trst |-> trst, tdi |-> tdi]

\* *jtag_tck = ( received_data & 0x01 ) ? 1 : 0;  and the three lines after it
DecodeSignals_Swapped(b) == Signals(BitOf(b, 0), BitOf(b, 3), BitOf(b, 1), BitOf(b, 2))
DecodeSignals(b) == Signals(BitOf(b, 3), BitOf(b, 0), BitOf(b, 1), BitOf(b, 2))

\* jtag_tdo ? 1 : 0
TdoReply_Raw(tdo) == tdo
TdoReply(tdo) == IF tdo # 0 THEN 1 ELSE 0

\* if ( s_clock_notification_counter > 0 ) --s_clock_notification_counter;
DecrementCounter(c) == IF c > 0 THEN c - 1 ELSE c

\* A history counter one tick later; it stops counting at cap.
Aged(n, cap) == IF n >= cap THEN n ELSE n + 1

\* The state of the module and of its sockets while one tick runs.
\*   wire     bytes send() has accepted in this tick, in order
\*   sendFail the send() call of this tick that fails (1 = the next one, 0 = none)
\*   recvErr  the recv() call of this tick that fails other than with EAGAIN
\*   thrown   a std::runtime_error is propagating
\*   brk      the receive loop has been left
\*   lost     the bytes still unread when the connection was closed
\*   since, reqCount, reqAge   the history counters, as of this tick
Machine(tdo, fault) ==
    [ls |-> s_listeningSocket, cs |-> s_connectionSocket, st |-> s_connectionState,
     cnt |-> s_clock_notification_counter, hp |-> s_jtag_tck_half_period_tick_count,
     out |-> Signals(jtag_tms, jtag_tck, jtag_trst, jtag_tdi),
     client |-> client, rx |-> rx, eof |-> peerClosed,
     tdo |-> tdo,
     sendFail |-> IF fault[1] = "send" THEN fault[2] ELSE 0,
     recvErr |-> IF fault[1] = "recv" THEN fault[2] ELSE 0,
     wire |-> <<>>, ev |-> <<>>, thrown |-> FALSE, caught |-> FALSE, brk |-> FALSE,
     served |-> FALSE, listenFailed |-> FALSE, accepted |-> FALSE,
     acceptFailed |-> FALSE, lost |-> <<>>,
     since |-> IF s_connectionSocket = NoSocket \/ sinceWrite = -1
               THEN -1
               ELSE Aged(sinceWrite, IF s_jtag_tck_half_period_tick_count > 0
                                     THEN s_jtag_tck_half_period_tick_count + 1 ELSE 1),
     reqCount |-> reqCount,
     reqAge |-> IF s_connectionSocket # NoSocket
                   /\ s_connectionState = cs_waiting_to_send_clock_notification
                THEN Aged(reqAge, reqCount + 1) ELSE 0]

\* One entry of the tick's log: the byte handled (-1 when there is none), the
\* bytes sent for it, and the module's state before and after it.
Event(kind, b, m0, m1) ==
    [kind |-> kind, b |-> b,
     reply |-> SubSeq(m1.wire, Len(m0.wire) + 1, Len(m1.wire)),
     out0 |-> m0.out, out |-> m1.out,
     cnt0 |-> m0.cnt, cnt |-> m1.cnt,
     st0 |-> m0.st, st |-> m1.st,
     since |-> m0.since, reqCount |-> m0.reqCount, reqAge |-> m0.reqAge,
     err |-> m1.thrown]

Log(kind, b, m0, m1) == [m1 EXCEPT !.ev = Append(@, Event(kind, b, m0, m1))]

close_current_connection_ClearOutputs(m) ==
    [m EXCEPT !.cs = NoSocket, !.client = "none", !.rx = <<>>, !.eof = FALSE,
              !.lost = m.rx, !.out = Signals(0, 0, 0, 0)]
close_current_connection(m) ==
    [m EXCEPT !.cs = NoSocket, !.client = "none", !.rx = <<>>, !.eof = FALSE,
              !.lost = m.rx]

close_listening_socket(m) ==
    [m EXCEPT !.ls = NoSocket,
              !.client = IF @ = "pending" THEN "none" ELSE @,
              !.rx = IF m.client = "pending" THEN <<>> ELSE @,
              !.eof = IF m.client = "pending" THEN FALSE ELSE @]

send_byte(m, data) ==
    IF m.sendFail = 1
    THEN [m EXCEPT !.thrown = TRUE, !.sendFail = 0]
    ELSE [m EXCEPT !.wire = Append(@, data),
                   !.sendFail = IF @ > 1 THEN @ - 1 ELSE 0]

\* --------------------------------------------------------- receive_commands

\* The signal-data branch: a byte with bit 7 clear.
ProcessData(m, b) ==
    IF HasHighNibble(b)
    THEN Log("bad", b, m, [m EXCEPT !.thrown = TRUE])
    ELSE LET written == [m EXCEPT !.out = DecodeSignals(b)]
             acked == send_byte(written, AckByte(b))
         IN IF acked.thrown
            THEN Log("data", b, m, acked)
            ELSE Log("data", b, m, [acked EXCEPT !.cnt = m.hp, !.since = 0])

\* case 0x81: answer now if the counter is 0, otherwise start waiting.
RequestNotification_Always(m) == send_byte(m, CLOCK_NOTIFICATION_MSG)
RequestNotification(m) ==
    IF m.cnt = 0
    THEN send_byte(m, CLOCK_NOTIFICATION_MSG)
    ELSE [m EXCEPT !.st = cs_waiting_to_send_clock_notification,
                   !.reqCount = m.cnt, !.reqAge = 0]

\* The command branch: a byte with bit 7 set (the switch, then the break test).
ProcessCommand_NoBreak(m, b) ==
    CASE b = 128 -> Log("tdo", b, m, send_byte(m, TdoReply(m.tdo)))
      [] b = 129 -> Log("clk", b, m, RequestNotification(m))
      [] OTHER -> Log("bad", b, m, [m EXCEPT !.thrown = TRUE])
ProcessCommand(m, b) ==
    LET after == CASE b = 128 -> Log("tdo", b, m, send_byte(m, TdoReply(m.tdo)))
                   [] b = 129 -> Log("clk", b, m, RequestNotification(m))
                   [] OTHER -> Log("bad", b, m, [m EXCEPT !.thrown = TRUE])
    IN IF after.thrown
       THEN after
       ELSE [after EXCEPT !.brk = (after.st = cs_waiting_to_send_clock_notification)]

\* One iteration of the for ( ; ; ) loop: one recv() call and what follows it.
ReceiveOne(m) ==
    LET r == [m EXCEPT !.recvErr = IF @ > 1 THEN @ - 1 ELSE 0]
    IN IF m.recvErr = 1
       THEN Log("rerr", -1, m, [r EXCEPT !.thrown = TRUE])
       ELSE IF m.rx = <<>>
            THEN IF m.eof
                 THEN Log("eof", -1, m, [close_current_connection(r) EXCEPT !.brk = TRUE])
                 ELSE [r EXCEPT !.brk = TRUE]
            ELSE LET b == Head(m.rx)
                     got == [r EXCEPT !.rx = Tail(@)]
                 IN IF IsCommandByte(b) THEN ProcessCommand(got, b) ELSE ProcessData(got, b)

receive_commands_OneByte(m) == ReceiveOne(m)
RECURSIVE receive_commands(_)
receive_commands(m) ==
    LET m1 == ReceiveOne(m)
    IN IF m1.thrown \/ m1.brk THEN m1 ELSE receive_commands(m1)

\* --------------------------------------------------------- serve_connection

\* case cs_waiting_to_send_clock_notification
SendDueNotification_NoDrain(m) ==
    IF m.cnt = 0
    THEN LET s == send_byte(m, CLOCK_NOTIFICATION_MSG)
         IN IF s.thrown
            THEN Log("notify", -1, m, s)
            ELSE Log("notify", -1, m,
                     [s EXCEPT !.st = cs_waiting_to_receive_commands,
                               !.reqCount = 0, !.reqAge = 0])
    ELSE m
SendDueNotification(m) ==
    IF m.cnt = 0
    THEN LET s == send_byte(m, CLOCK_NOTIFICATION_MSG)
         IN IF s.thrown
            THEN Log("notify", -1, m, s)
            ELSE receive_commands(
                     Log("notify", -1, m,
                         [s EXCEPT !.st = cs_waiting_to_receive_commands,
                                   !.reqCount = 0, !.reqAge = 0]))
    ELSE m

\* catch ( const std::exception & e ) of serve_connection
CatchAndClose_KeepOpen(m) == [m EXCEPT !.thrown = FALSE, !.caught = TRUE]
CatchAndClose(m) == [close_current_connection(m) EXCEPT !.thrown = FALSE, !.caught = TRUE]

serve_connection(m) ==
    LET m1 == [m EXCEPT !.cnt = DecrementCounter(@), !.served = TRUE]
        m2 == CASE m1.st = cs_waiting_to_receive_commands -> receive_commands(m1)
                [] m1.st = cs_waiting_to_send_clock_notification -> SendDueNotification(m1)
                [] OTHER -> m1
    IN IF m2.thrown THEN CatchAndClose(m2) ELSE m2

\* ------------------------------------------------- listening and accepting

\* ok = FALSE: socket(), setsockopt(), bind() or listen() failed.
create_listening_socket_Skipped(m, ok) ==
    IF ok THEN m ELSE [m EXCEPT !.ls = NoSocket, !.thrown = TRUE, !.listenFailed = TRUE]
create_listening_socket(m, ok) ==
    IF ok
    THEN [m EXCEPT !.ls = ListenFd]
    ELSE [m EXCEPT !.ls = NoSocket, !.thrown = TRUE, !.listenFailed = TRUE]

\* acc: "ok", "poll_error" (poll returns -1) or "accept_error" (accept4 fails).
accept_connection_KeepListening(m, acc) ==
    IF acc = "poll_error" THEN [m EXCEPT !.thrown = TRUE]
    ELSE IF m.client # "pending" THEN m
    ELSE IF acc = "accept_error"
         THEN [m EXCEPT !.client = "none", !.rx = <<>>, !.eof = FALSE,
                        !.acceptFailed = TRUE]
         ELSE [m EXCEPT !.cs = ConnFd, !.st = cs_waiting_to_receive_commands,
                        !.client = "connected", !.accepted = TRUE]
accept_connection_KeepState(m, acc) ==
    IF acc = "poll_error" THEN [m EXCEPT !.thrown = TRUE]
    ELSE IF m.client # "pending" THEN m
    ELSE IF acc = "accept_error"
         THEN [m EXCEPT !.client = "none", !.rx = <<>>, !.eof = FALSE,
                        !.acceptFailed = TRUE]
         ELSE close_listening_socket(
                  [m EXCEPT !.cs = ConnFd, !.client = "connected", !.accepted = TRUE])
accept_connection_ResetCounter(m, acc) ==
    IF acc = "poll_error" THEN [m EXCEPT !.thrown = TRUE]
    ELSE IF m.client # "pending" THEN m
    ELSE IF acc = "accept_error"
         THEN [m EXCEPT !.client = "none", !.rx = <<>>, !.eof = FALSE,
                        !.acceptFailed = TRUE]
         ELSE close_listening_socket(
                  [m EXCEPT !.cs = ConnFd, !.st = cs_waiting_to_receive_commands,
                            !.client = "connected", !.accepted = TRUE, !.cnt = 0])
accept_connection(m, acc) ==
    IF acc = "poll_error" THEN [m EXCEPT !.thrown = TRUE]
    ELSE IF m.client # "pending" THEN m
    ELSE IF acc = "accept_error"
         THEN [m EXCEPT !.client = "none", !.rx = <<>>, !.eof = FALSE,
                        !.acceptFailed = TRUE]
         ELSE close_listening_socket(
                  [m EXCEPT !.cs = ConnFd, !.st = cs_waiting_to_receive_commands,
                            !.client = "connected", !.accepted = TRUE])

\* ------------------------------------------------------------ jtag_dpi_tick

\* The body of jtag_dpi_tick on an initialized module.
\*   listenOk  whether creating the listening socket succeeds, if it is tried
\*   arrives   a client connects between listen() and poll() of this tick
\*   acc       the outcome of poll()/accept4(), see accept_connection
TickBody(m, listenOk, arrives, acc) ==
    LET listening ==
            IF m.cs = NoSocket /\ m.ls = NoSocket
            THEN create_listening_socket(m, listenOk)
            ELSE m
        queued ==
            IF m.cs = NoSocket /\ m.ls = NoSocket /\ ~listening.thrown
               /\ arrives /\ listening.client = "none"
            THEN [listening EXCEPT !.client = "pending"]
            ELSE listening
        accepted ==
            IF m.cs = NoSocket /\ ~queued.thrown
            THEN accept_connection(queued, acc)
            ELSE queued
    IN IF ~accepted.thrown /\ accepted.cs # NoSocket
       THEN serve_connection(accepted)
       ELSE accepted

\* What a call left behind: the entry point and what it returned; whether it
\* failed to create the listening socket or dropped the connection (a call that
\* changes nothing, a second init, hands these two on from the call before it);
\* and for a tick its TDO input, whether it accepted a connection or met an
\* accept4() error, the connection state an accepted connection found, the
\* bytes a drop left unread, and the log; for an init its arguments. The op
\* "abort" is a failed assertion: the process has ended.
Call_Success(op, ret, listenFailed, dropped) ==
    [op |-> op, ret |-> RET_SUCCESS, listenFailed |-> listenFailed, tdo |-> 0,
     accepted |-> FALSE, acceptFailed |-> FALSE, dropped |-> dropped,
     found |-> cs_invalid, lost |-> <<>>, ev |-> <<>>, args |-> <<>>]
Call(op, ret, listenFailed, dropped) ==
    [op |-> op, ret |-> ret, listenFailed |-> listenFailed, tdo |-> 0,
     accepted |-> FALSE, acceptFailed |-> FALSE, dropped |-> dropped,
     found |-> cs_invalid, lost |-> <<>>, ev |-> <<>>, args |-> <<>>]

TickCall(m) ==
    [op |-> "tick", ret |-> IF m.thrown THEN RET_FAILURE ELSE RET_SUCCESS,
     listenFailed |-> m.listenFailed, tdo |-> m.tdo,
     accepted |-> m.accepted, acceptFailed |-> m.acceptFailed,
     dropped |-> (m.served /\ m.cs = NoSocket),
     found |-> IF m.accepted THEN s_connectionState ELSE cs_invalid,
     lost |-> m.lost, ev |-> m.ev, args |-> <<>>]

NoCall == Call("none", RET_SUCCESS, FALSE, FALSE)

\* The process runs until an assertion fails.
Running == last.op # "abort"

\* Values of the jtag_tdo argument (an unsigned char).
TdoInputs == {0, 1, 255}

\* The transport's answers a tick can meet in the current state: TDO, and at
\* most one fault (the first one ends the tick's work).
NoFault == <<"none", 0>>
ServeInputs ==
    {<<tdo, f>> : tdo \in (IF 128 \in vocab THEN TdoInputs ELSE {0}),
                  f \in {NoFault} \cup ({"send", "recv"} \X (1..(Len(rx) + 1)))}
AcceptInputs ==
    IF s_connectionSocket # NoSocket
    THEN {<<TRUE, FALSE, "ok">>}
    ELSE IF s_listeningSocket # NoSocket
         THEN {<<TRUE, FALSE, acc>> :
                   acc \in IF client = "pending"
                           THEN {"ok", "poll_error", "accept_error"}
                           ELSE {"poll_error", "ok"}}
         ELSE {<<FALSE, FALSE, "ok">>, <<TRUE, FALSE, "ok">>, <<TRUE, FALSE, "poll_error">>,
               <<TRUE, TRUE, "ok">>, <<TRUE, TRUE, "accept_error">>}

JtagDpiTick ==
    /\ Running
    /\ IF ~s_already_initialized
       THEN /\ last' = Call("tick", RET_FAILURE, FALSE, FALSE)
            /\ UNCHANGED <<s_already_initialized, s_listening_tcp_port,
                           s_listen_on_local_addr_only, s_print_informational_messages,
                           s_jtag_tck_half_period_tick_count, s_listeningSocket,
                           s_connectionSocket, s_connectionState,
                           s_clock_notification_counter,
                           jtag_tms, jtag_tck, jtag_trst, jtag_tdi,
                           client, rx, peerClosed, sinceWrite, reqCount, reqAge, vocab, harness>>
       ELSE \E a \in AcceptInputs, i \in ServeInputs :
            \E m \in {TickBody(Machine(i[1], i[2]), a[1], a[2], a[3])} :
                   /\ (i[2] # NoFault => m.caught)
                   /\ (i[1] # 0 => \E k \in 1..Len(m.ev) : m.ev[k].kind = "tdo")
                   /\ s_listeningSocket' = m.ls
                   /\ s_connectionSocket' = m.cs
                   /\ s_connectionState' = m.st
                   /\ s_clock_notification_counter' = m.cnt
                   /\ jtag_tms' = m.out.tms
                   /\ jtag_tck' = m.out.tck
                   /\ jtag_trst' = m.out.trst
                   /\ jtag_tdi' = m.out.tdi
                   /\ client' = m.client
                   /\ rx' = m.rx
                   /\ peerClosed' = m.eof
                   /\ sinceWrite' = IF m.cs = NoSocket THEN -1 ELSE m.since
                   /\ reqCount' = IF m.cs = NoSocket THEN 0 ELSE m.reqCount
                   /\ reqAge' = IF m.cs = NoSocket THEN 0 ELSE m.reqAge
                   /\ last' = TickCall(m)
                   /\ UNCHANGED <<s_already_initialized, s_listening_tcp_port,
                                  s_listen_on_local_addr_only,
                                  s_print_informational_messages,
                                  s_jtag_tck_half_period_tick_count, vocab, harness>>

\* ------------------------------------------------------------ jtag_dpi_init

\* s_listening_tcp_port = tcp_port;  (int to uint16_t)
StorePort(tcp_port) == tcp_port % PortModulus

\* How far jtag_dpi_init gets before it throws: the step that fails, or "done".
InitOutcome_NoAlreadyCheck(args, listenOk) ==
    IF args[1] = 0 THEN "port"
    ELSE IF args[4] \notin {0, 1} THEN "print"
    ELSE IF args[2] \notin {0, 1} THEN "local"
    ELSE IF args[3] = 0 THEN "half_period"
    ELSE IF ~listenOk THEN "listen"
    ELSE "done"
InitOutcome_NoHalfPeriodCheck(args, listenOk) ==
    IF s_already_initialized THEN "already"
    ELSE IF args[1] = 0 THEN "port"
    ELSE IF args[4] \notin {0, 1} THEN "print"
    ELSE IF args[2] \notin {0, 1} THEN "local"
    ELSE IF ~listenOk THEN "listen"
    ELSE "done"
InitOutcome(args, listenOk) ==
    IF s_already_initialized THEN "already"
    ELSE IF args[1] = 0 THEN "port"
    ELSE IF args[4] \notin {0, 1} THEN "print"
    ELSE IF args[2] \notin {0, 1} THEN "local"
    ELSE IF args[3] = 0 THEN "half_period"
    ELSE IF ~listenOk THEN "listen"
    ELSE "done"

CallerArgs == IF harness = AnyArgs THEN LifecycleArgs ELSE {harness}

JtagDpiInit ==
    \E args \in CallerArgs, listenOk \in BOOLEAN :
        LET o == InitOutcome(args, listenOk)
        IN /\ Running
           /\ s_listening_tcp_port' =
                  IF o \in {"already", "port"} THEN s_listening_tcp_port
                  ELSE StorePort(args[1])
           /\ s_print_informational_messages' =
                  IF o \in {"already", "port", "print"} THEN s_print_informational_messages
                  ELSE (args[4] = 1)
           /\ s_listen_on_local_addr_only' =
                  IF o \in {"already", "port", "print", "local"}
                  THEN s_listen_on_local_addr_only
                  ELSE (args[2] = 1)
           /\ IF o \in {"listen", "done"}
              THEN /\ s_jtag_tck_half_period_tick_count' = args[3]
                   /\ s_listeningSocket' = IF o = "done" THEN ListenFd ELSE NoSocket
                   /\ s_connectionSocket' = NoSocket
                   /\ s_connectionState' = cs_invalid
              ELSE UNCHANGED <<s_jtag_tck_half_period_tick_count, s_listeningSocket,
                               s_connectionSocket, s_connectionState>>
           /\ s_already_initialized' = (s_already_initialized \/ o = "done")
           /\ last' = [Call("init", IF o = "done" THEN RET_SUCCESS ELSE RET_FAILURE,
                            IF o = "already" THEN last.listenFailed ELSE o = "listen",
                            o = "already" /\ last.dropped)
                           EXCEPT !.args = args]
           /\ UNCHANGED <<s_clock_notification_counter,
                          jtag_tms, jtag_tck, jtag_trst, jtag_tdi,
                          client, rx, peerClosed, sinceWrite, reqCount, reqAge, vocab, harness>>

\* ------------------------------------------------------- jtag_dpi_terminate

\* On a module that is not initialized the routine is assert( false ); return;
\* the assertion ends the process unless the build defines NDEBUG.
JtagDpiTerminate ==
    /\ Running
    /\ IF s_already_initialized
       THEN /\ s_listeningSocket' = NoSocket
            /\ s_connectionSocket' = NoSocket
            /\ s_already_initialized' = FALSE
            /\ client' = "none"
            /\ rx' = <<>>
            /\ peerClosed' = FALSE
            /\ sinceWrite' = -1
            /\ reqCount' = 0
            /\ reqAge' = 0
            /\ last' = Call("terminate", RET_SUCCESS, FALSE, FALSE)
       ELSE /\ \E ndebug \in BOOLEAN :
                   last' = Call(IF ndebug THEN "terminate" ELSE "abort",
                                RET_SUCCESS, FALSE, FALSE)
            /\ UNCHANGED <<s_listeningSocket, s_connectionSocket, s_already_initialized,
                           client, rx, peerClosed, sinceWrite, reqCount, reqAge>>
    /\ UNCHANGED <<s_listening_tcp_port, s_listen_on_local_addr_only,
                   s_print_informational_messages, s_jtag_tck_half_period_tick_count,
                   s_connectionState, s_clock_notification_counter,
                   jtag_tms, jtag_tck, jtag_trst, jtag_tdi, vocab, harness>>

\* ------------------------------------------------------------- the client

server == <<s_already_initialized, s_listening_tcp_port, s_listen_on_local_addr_only,
            s_print_informational_messages, s_jtag_tck_half_period_tick_count,
            s_listeningSocket, s_connectionSocket, s_connectionState,
            s_clock_notification_counter, jtag_tms, jtag_tck, jtag_trst, jtag_tdi,
            sinceWrite, reqCount, reqAge, vocab, harness>>

\* connect(): lands in the accept queue of the listening socket.
ClientConnect ==
    /\ Running
    /\ s_listeningSocket = ListenFd
    /\ client = "none"
    /\ client' = "pending"
    /\ rx' = <<>>
    /\ peerClosed' = FALSE
    /\ last' = NoCall
    /\ UNCHANGED server

\* send() of one byte: once the connection has been accepted, and under the
\* lifecycle harness also while it is still in the accept queue.
ClientSend ==
    \E b \in vocab :
        /\ Running
        /\ client = "connected" \/ (harness = AnyArgs /\ client = "pending")
        /\ ~peerClosed
        /\ Len(rx) < MaxQueue
        /\ rx' = Append(rx, b)
        /\ last' = NoCall
        /\ UNCHANGED <<server, client, peerClosed>>

\* close() of the client's end.
ClientClose ==
    /\ Running
    /\ client \in {"pending", "connected"}
    /\ ~peerClosed
    /\ peerClosed' = TRUE
    /\ last' = NoCall
    /\ UNCHANGED <<server, client, rx>>

\* ------------------------------------------------------- the specification

\* Statics are zero-initialised; the caller's signals start at 0.
Init ==
    /\ s_already_initialized = FALSE
    /\ s_listening_tcp_port = 0
    /\ s_listen_on_local_addr_only = FALSE
    /\ s_print_informational_messages = FALSE
    /\ s_jtag_tck_half_period_tick_count = 0
    /\ s_listeningSocket = 0
    /\ s_connectionSocket = 0
    /\ s_connectionState = cs_invalid
    /\ s_clock_notification_counter = 0
    /\ jtag_tms = 0 /\ jtag_tck = 0 /\ jtag_trst = 0 /\ jtag_tdi = 0
    /\ client = "none"
    /\ rx = <<>>
    /\ peerClosed = FALSE
    /\ sinceWrite = -1
    /\ reqCount = 0
    /\ reqAge = 0
    /\ vocab \in Vocabularies
    /\ harness \in InitArgs
    /\ last = NoCall

Next ==
    \/ JtagDpiInit
    \/ JtagDpiTick
    \/ JtagDpiTerminate
    \/ ClientConnect
    \/ ClientSend
    \/ ClientClose

Spec == Init /\ [][Next]_vars

\* The same module under a harness that varies the arguments of jtag_dpi_init.
LifecycleInit ==
    /\ s_already_initialized = FALSE
    /\ s_listening_tcp_port = 0
    /\ s_listen_on_local_addr_only = FALSE
    /\ s_print_informational_messages = FALSE
    /\ s_jtag_tck_half_period_tick_count = 0
    /\ s_listeningSocket = 0
    /\ s_connectionSocket = 0
    /\ s_connectionState = cs_invalid
    /\ s_clock_notification_counter = 0
    /\ jtag_tms = 0 /\ jtag_tck = 0 /\ jtag_trst = 0 /\ jtag_tdi = 0
    /\ client = "none"
    /\ rx = <<>>
    /\ peerClosed = FALSE
    /\ sinceWrite = -1
    /\ reqCount = 0
    /\ reqAge = 0
    /\ vocab = LifecycleVocab
    /\ harness = AnyArgs
    /\ last = NoCall

LifecycleSpec == LifecycleInit /\ [][Next]_vars

\* The simulation keeps calling jtag_dpi_tick: while a connection waits for
\* its clock notification, a tick that would change anything is eventually
\* taken.
WaitingTick ==
    /\ s_already_initialized
    /\ s_connectionSocket # NoSocket
    /\ s_connectionState = cs_waiting_to_send_clock_notification
    /\ JtagDpiTick
FairSpec == Spec /\ WF_vars(WaitingTick)

\* ------------------------------------------------------------ the claims

\* The log of the most recent tick, and the module as that tick left it.
Events == 1..Len(last.ev)
Connected == s_already_initialized /\ s_connectionSocket # NoSocket
Listening == s_already_initialized /\ s_listeningSocket # NoSocket
AwaitingCommands == s_connectionState = cs_waiting_to_receive_commands
AwaitingClockNotification == s_connectionState = cs_waiting_to_send_clock_notification

\* The send() of an event's reply failed.
SendFailed(e) == e.err /\ e.kind \in {"data", "tdo", "clk", "notify"}

\* The log's last entry is the state the tick left behind.
LogEndsInState ==
    last.ev # <<>> =>
        LET e == last.ev[Len(last.ev)]
        IN /\ e.out = Signals(jtag_tms, jtag_tck, jtag_trst, jtag_tdi)
           /\ e.cnt = s_clock_notification_counter
           /\ e.st = s_connectionState

\* C1: every byte 0x00..0x0F received in AwaitingCommands sets TCK, TRST, TDI
\* and TMS to its bits 0, 1, 2 and 3, is answered by exactly one byte, b | 0x10,
\* and sets the clock notification counter to the configured half-period (the
\* reply and the counter provided the send() of the reply does not fail).
C1_SignalWrite ==
    /\ LogEndsInState
    /\ \A k \in Events :
           LET e == last.ev[k]
           IN (e.b \in 0..15 /\ e.st0 = cs_waiting_to_receive_commands) =>
                  /\ e.out.tck = e.b % 2
                  /\ e.out.trst = (e.b \div 2) % 2
                  /\ e.out.tdi = (e.b \div 4) % 2
                  /\ e.out.tms = (e.b \div 8) % 2
                  /\ ~SendFailed(e) =>
                         /\ e.reply = <<e.b + 16>>
                         /\ e.cnt = s_jtag_tck_half_period_tick_count

\* A tick has processed 0x09 and then 0x06: both were acknowledged and the
\* outputs are those of 0x06.
C1_Witness ==
    /\ Len(last.ev) = 2
    /\ last.ev[1].b = 9 /\ last.ev[1].reply = <<25>>
    /\ last.ev[1].out = Signals(1, 1, 0, 0)
    /\ last.ev[2].b = 6 /\ last.ev[2].reply = <<22>>
    /\ jtag_tms = 0 /\ jtag_tck = 0 /\ jtag_trst = 1 /\ jtag_tdi = 1
    /\ s_clock_notification_counter = 2

\* A byte the protocol does not define: bit 7 clear with one of bits 4-6 set,
\* or bit 7 set and neither 0x80 nor 0x81.
InvalidByte(b) == (b \in 16..127) \/ (b \in 130..255)

\* C4: an invalid byte received in AwaitingCommands closes the connection in
\* that tick, gets no reply, leaves the four outputs and the clock notification
\* counter as they were before it, and is the last byte the tick processes.
C4_InvalidByteCloses ==
    \A k \in Events :
        LET e == last.ev[k]
        IN (e.b >= 0 /\ InvalidByte(e.b)) =>
               /\ e.reply = <<>>
               /\ e.out = e.out0
               /\ e.cnt = e.cnt0
               /\ k = Len(last.ev)
               /\ last.dropped
               /\ s_connectionSocket = NoSocket
               /\ Signals(jtag_tms, jtag_tck, jtag_trst, jtag_tdi) = e.out0
               /\ s_clock_notification_counter = e.cnt0

\* After an earlier write of 0x08, a tick met the invalid byte 0x82 with another
\* byte queued behind it: the connection is closed, the byte behind is unread
\* and TMS is still 1.
C4_Witness ==
    /\ Len(last.ev) = 1
    /\ last.ev[1].b = 130
    /\ last.lost = <<8>>
    /\ s_connectionSocket = NoSocket
    /\ jtag_tms = 1
    /\ s_clock_notification_counter > 0

\* C5: a read-TDO byte 0x80 is answered by exactly one byte, 1 if the tick's TDO
\* input is nonzero and 0 otherwise (provided the send() does not fail), and
\* changes none of the four outputs, the counter or the connection state.
C5_ReadTdo ==
    \A k \in Events :
        LET e == last.ev[k]
        IN e.b = 128 =>
               /\ e.out = e.out0
               /\ e.cnt = e.cnt0
               /\ e.st = e.st0
               /\ e.st = cs_waiting_to_receive_commands
               /\ IF SendFailed(e)
                  THEN e.reply = <<>>
                  ELSE e.reply = <<IF last.tdo = 0 THEN 0 ELSE 1>>

\* A tick with TDO = 255 answered 0x80 with 1, after a signal write.
C5_Witness ==
    /\ last.tdo = 255
    /\ Len(last.ev) = 2
    /\ last.ev[1].kind = "data"
    /\ last.ev[2].b = 128 /\ last.ev[2].reply = <<1>>
    /\ Connected /\ AwaitingCommands
    /\ s_clock_notification_counter = s_jtag_tck_half_period_tick_count

\* C6: on an initialized module a listening socket and a connection never exist
\* together (and there is one connection descriptor at most); one of the two
\* exists, unless the most recent tick dropped its connection or failed to
\* create the listening socket (a rejected second init may have followed it).
C6_ListenerXorConnection ==
    s_already_initialized =>
        /\ s_listeningSocket \in {NoSocket, ListenFd}
        /\ s_connectionSocket \in {NoSocket, ConnFd}
        /\ ~(s_listeningSocket # NoSocket /\ s_connectionSocket # NoSocket)
        /\ (s_listeningSocket = NoSocket /\ s_connectionSocket = NoSocket) =>
               /\ last.op \in {"tick", "init"}
               /\ last.dropped \/ last.listenFailed
        /\ (client = "connected") = (s_connectionSocket # NoSocket)
        /\ (client = "pending") => s_listeningSocket # NoSocket

\* A tick accepted a client that had already closed: the connection was
\* dropped in the same tick and neither socket exists.
C6_Witness ==
    /\ s_already_initialized
    /\ s_listeningSocket = NoSocket /\ s_connectionSocket = NoSocket
    /\ last.accepted /\ last.dropped /\ ~last.listenFailed

\* The most recent call was a tick whose log has an entry of the given kind.
Logged(kind) == \E k \in Events : last.ev[k].kind = kind

\* A tick that starts with neither socket and does not fail to create the
\* listening socket ends listening, or has accepted a client; it leaves no
\* client in the accept queue unless poll() failed.
ListenCycleResumes ==
    (/\ s_already_initialized
     /\ s_listeningSocket = NoSocket /\ s_connectionSocket = NoSocket
     /\ last'.op = "tick"
     /\ ~last'.listenFailed)
    => /\ (s_listeningSocket' = ListenFd /\ s_connectionSocket' = NoSocket)
          \/ last'.accepted
       /\ last'.accepted => last'.ev # <<>> \/ s_connectionSocket' = ConnFd
       /\ (client' = "pending") => last'.ret = RET_FAILURE

\* C7: a zero-length read closes the connection in the tick that observes it;
\* the next tick creates the listening socket again (unless creating it fails)
\* and accepts a client that is pending by then in that same tick.
C7_PeerCloseThenListen ==
    /\ [](Logged("eof") =>
             /\ s_connectionSocket = NoSocket
             /\ s_already_initialized
             /\ last.dropped
             /\ last.ret = RET_SUCCESS
             /\ last.ev[Len(last.ev)].kind = "eof")
    /\ [][(last.op = "tick" /\ Logged("eof")) => ListenCycleResumes]_vars

\* After a connection was lost, one tick has created the listening socket,
\* accepted the client that arrived and read nothing from it yet.
C7_Witness ==
    /\ last.op = "tick" /\ last.accepted /\ ~last.dropped
    /\ last.ev = <<>>
    /\ Connected /\ AwaitingCommands
    /\ s_clock_notification_counter = 0
    /\ jtag_tck = 1

\* An error was raised while the tick served the connection.
ServiceError == \E k \in Events : last.ev[k].err

\* C8: an error raised while servicing a connection (an invalid byte, a recv()
\* error other than would-block, a send() error) stays with the connection:
\* the tick returns SUCCESS, the module stays initialized, the connection is
\* closed, and the next tick takes up listening and accepting again.
C8_ErrorsConfined ==
    /\ []((/\ \A k \in Events :
                 LET e == last.ev[k]
                 IN (e.kind \in {"bad", "rerr"} \/ (e.b >= 0 /\ InvalidByte(e.b))) => e.err)
          /\ ServiceError =>
                 /\ last.op = "tick"
                 /\ last.ret = RET_SUCCESS
                 /\ s_already_initialized
                 /\ s_connectionSocket = NoSocket
                 /\ s_listeningSocket = NoSocket
                 /\ client = "none"
                 /\ last.dropped
                 /\ last.ev[Len(last.ev)].err)
    /\ [][ServiceError => ListenCycleResumes]_vars

\* A send() failed on the acknowledgement of a signal write.
C8_Witness ==
    /\ Len(last.ev) = 2
    /\ last.ev[1].kind = "tdo" /\ ~last.ev[1].err
    /\ last.ev[2].kind = "data" /\ last.ev[2].err /\ last.ev[2].reply = <<>>
    /\ last.ret = RET_SUCCESS
    /\ s_connectionSocket = NoSocket

\* The request-clock-notification byte 0x81, as far as C2 and its amendment
\* agree: answered 0xFF at once with the counter at 0; with the counter at
\* c > 0 nothing is sent for it, it is the last byte of its tick and the wait
\* starts; after each of the next c-1 ticks the wait goes on, the tick has sent
\* nothing and the counter is c less the ticks gone by; the notification is the
\* first thing its tick sends, on the c-th tick after the request, 0xFF, and it
\* puts the connection into AwaitingCommands.
NotificationTiming ==
    /\ \A k \in Events :
           LET e == last.ev[k]
           IN /\ (e.kind = "clk" /\ ~SendFailed(e) /\ e.cnt0 = 0) =>
                     /\ e.reply = <<CLOCK_NOTIFICATION_MSG>>
                     /\ e.st0 = cs_waiting_to_receive_commands
                     /\ e.st = cs_waiting_to_receive_commands
              /\ (e.kind = "clk" /\ e.cnt0 > 0) =>
                     /\ e.reply = <<>>
                     /\ e.st = cs_waiting_to_send_clock_notification
                     /\ k = Len(last.ev)
                     /\ Connected /\ AwaitingClockNotification
                     /\ reqCount = e.cnt0 /\ reqAge = 0
              /\ (e.kind = "notify" /\ ~SendFailed(e)) =>
                     /\ k = 1
                     /\ e.reqCount > 0
                     /\ e.reqAge = e.reqCount
                     /\ e.cnt0 = 0
                     /\ e.reply = <<CLOCK_NOTIFICATION_MSG>>
                     /\ e.st = cs_waiting_to_receive_commands
    /\ (Connected /\ AwaitingClockNotification /\ reqCount > 0) =>
           /\ reqAge < reqCount
           /\ s_clock_notification_counter = reqCount - reqAge
           /\ reqAge >= 1 => last.ev = <<>>

\* C2, as amended: NotificationTiming, and a tick that sends the notification
\* goes on to read what the client queued during the wait: it ends connected in
\* AwaitingCommands if nothing was queued, and otherwise in the state the
\* queued bytes lead to (a new wait, or a closed connection).
C2_ClockNotification ==
    /\ NotificationTiming
    /\ (last.ev # <<>> /\ last.ev[1].kind = "notify" /\ ~SendFailed(last.ev[1])) =>
           /\ Len(last.ev) = 1 => Connected /\ AwaitingCommands
           /\ LogEndsInState

\* After a wait of 2 ticks a tick sent 0xFF and went on to the signal byte and
\* the 0x81 queued behind it: it ends in AwaitingClockNotification again.
C2_Witness ==
    /\ Len(last.ev) = 3
    /\ last.ev[1].kind = "notify" /\ last.ev[1].reqCount = 2
    /\ last.ev[1].reply = <<CLOCK_NOTIFICATION_MSG>>
    /\ last.ev[2].kind = "data" /\ last.ev[2].reply # <<>>
    /\ last.ev[3].kind = "clk" /\ last.ev[3].reply = <<>>
    /\ Connected /\ AwaitingClockNotification
    /\ reqCount = 2 /\ reqAge = 0

\* C2, as stated: NotificationTiming, and the connection is back in
\* AwaitingCommands at the end of the tick that sends the notification.
C2_Original ==
    /\ NotificationTiming
    /\ (last.ev # <<>> /\ last.ev[1].kind = "notify" /\ ~SendFailed(last.ev[1])) =>
           Connected /\ AwaitingCommands

\* C3, as stated: a 0x81 received fewer than half-period ticks after the last
\* signal write of its connection is not answered in its tick, and its 0xFF is
\* sent exactly half-period ticks after the write; a 0x81 received half-period
\* ticks after the write or later is answered 0xFF in its tick (provided the
\* send() does not fail).
C3_Original ==
    \A k \in Events :
        LET e == last.ev[k]
            hp == s_jtag_tck_half_period_tick_count
        IN (e.since >= 0 /\ ~SendFailed(e)) =>
               /\ (e.kind = "clk" /\ e.since < hp) =>
                      e.reply = <<>> /\ e.st = cs_waiting_to_send_clock_notification
               /\ (e.kind = "clk" /\ e.since >= hp) =>
                      e.reply = <<CLOCK_NOTIFICATION_MSG>>
               /\ e.kind = "notify" => e.since = hp

\* C9, as stated: a connection in AwaitingClockNotification, with ticks being
\* delivered, leads to the notification being sent, the connection being in
\* AwaitingCommands, or the connection being closed.
C9_Original ==
    (Connected /\ AwaitingClockNotification)
        ~> (Logged("notify") \/ ~Connected \/ AwaitingCommands)

\* C10, as stated: the clock notification counter is never negative and never
\* above the configured half-period, and a tick either leaves it, decrements it
\* by 1, or processes a signal-data byte and leaves it at the half-period.
C10_Original ==
    /\ [](/\ s_clock_notification_counter >= 0
          /\ s_already_initialized =>
                 s_clock_notification_counter <= s_jtag_tck_half_period_tick_count)
    /\ [][last'.op = "tick" =>
              \/ s_clock_notification_counter' = s_clock_notification_counter
              \/ s_clock_notification_counter' = s_clock_notification_counter - 1
              \/ /\ s_clock_notification_counter' = s_jtag_tck_half_period_tick_count
                 /\ \E k \in 1..Len(last'.ev) : last'.ev[k].kind = "data"]_vars

\* The log of the tick a step takes has a signal-data entry.
WritesSignals == \E k \in 1..Len(last'.ev) : last'.ev[k].kind = "data"

\* C11: a tick in which no signal-data byte is processed leaves the four
\* outputs as they were: a tick without a connection, one that only accepts,
\* one spent waiting for the notification, one that processes only 0x80 and
\* 0x81, one that drops the connection, and one on a module that is not
\* initialized.
C11_OutputsFramed ==
    [][(last'.op = "tick" /\ ~WritesSignals) =>
           UNCHANGED <<jtag_tms, jtag_tck, jtag_trst, jtag_tdi>>]_vars

\* With TMS at 1 from an earlier write, a tick answered 0x80, took
\* 0x81 and started waiting: the outputs are as before.
C11_Witness ==
    /\ Len(last.ev) = 2
    /\ last.ev[1].kind = "tdo" /\ last.ev[2].kind = "clk"
    /\ last.ev[1].out0 = Signals(1, 0, 0, 0)
    /\ jtag_tms = 1 /\ jtag_tck = 0 /\ jtag_trst = 0 /\ jtag_tdi = 0
    /\ Connected /\ AwaitingClockNotification

\* C12: jtag_dpi_init on an initialized module returns FAILURE and changes
\* nothing, whatever its arguments: port, bind scope, half-period, verbosity,
\* both sockets, the connection state, the counter and the client's side of
\* the connection are as they were.
C12_SecondInitRejected ==
    [][(s_already_initialized /\ last'.op = "init") =>
           /\ last'.ret = RET_FAILURE
           /\ UNCHANGED <<server, client, rx, peerClosed>>]_vars

\* A module initialized with <<4567, 1, 1, 0>> has a connection waiting for
\* its notification; a second init with <<4568, 0, 2, 1>> has just failed.
C12_Witness ==
    /\ last.op = "init" /\ last.ret = RET_FAILURE
    /\ last.args = <<4568, 0, 2, 1>>
    /\ s_already_initialized
    /\ s_listening_tcp_port = 4567
    /\ s_listen_on_local_addr_only
    /\ s_jtag_tck_half_period_tick_count = 1
    /\ ~s_print_informational_messages
    /\ Connected /\ AwaitingClockNotification
    /\ s_clock_notification_counter = 1

\* C13: jtag_dpi_tick on a module that is not initialized (never initialized,
\* after a failed init, after terminate) returns FAILURE, creates no
\* listening socket, accepts, receives and sends nothing, and leaves the
\* outputs and every other piece of state as they were.
C13_TickNeedsInit ==
    [][(~s_already_initialized /\ last'.op = "tick") =>
           /\ last'.ret = RET_FAILURE
           /\ last'.ev = <<>>
           /\ ~last'.accepted /\ ~last'.acceptFailed /\ ~last'.listenFailed
           /\ ~last'.dropped
           /\ UNCHANGED <<server, client, rx, peerClosed>>]_vars

\* After a signal write of 0x01 and a terminate, a tick has failed: no socket
\* exists and TCK is still 1.
C13_Witness ==
    /\ last.op = "tick" /\ last.ret = RET_FAILURE
    /\ ~s_already_initialized
    /\ s_listeningSocket = NoSocket /\ s_connectionSocket = NoSocket
    /\ jtag_tck = 1
    /\ s_clock_notification_counter > 0

\* The arguments the specification rejects: <<port, local, half-period, print>>.
RejectedArgs(a) == a[1] = 0 \/ a[3] = 0 \/ a[2] \notin {0, 1} \/ a[4] \notin {0, 1}

\* C14: jtag_dpi_init on a module that is not initialized returns FAILURE and
\* leaves it not initialized, with no listening socket and no connection, when
\* the port is 0, the half-period is 0, a flag is neither 0 nor 1, or the
\* listening socket cannot be created; otherwise it returns SUCCESS and leaves
\* the module initialized, listening and without a connection.
C14_InitOutcomes ==
    [][(~s_already_initialized /\ last'.op = "init") =>
           IF RejectedArgs(last'.args) \/ last'.listenFailed
           THEN /\ last'.ret = RET_FAILURE
                /\ ~s_already_initialized'
                /\ s_listeningSocket' # ListenFd
                /\ s_connectionSocket' # ConnFd
                /\ client' = "none"
           ELSE /\ last'.ret = RET_SUCCESS
                /\ s_already_initialized'
                /\ s_listeningSocket' = ListenFd
                /\ s_connectionSocket' = NoSocket
                /\ client' = "none"]_vars

\* An init with half-period 0 has failed after storing its port and flags:
\* the module is not initialized and has no socket.
C14_Witness ==
    /\ last.op = "init" /\ last.ret = RET_FAILURE
    /\ last.args = <<4568, 0, 0, 1>>
    /\ ~s_already_initialized
    /\ s_listening_tcp_port = 4568
    /\ s_print_informational_messages
    /\ s_jtag_tck_half_period_tick_count = 1
    /\ s_listeningSocket = NoSocket /\ s_connectionSocket = NoSocket

\* C15, as stated: after a successful init the stored port, the one the
\* listening socket is bound to, is not 0 and is the tcp_port argument.
C15_Original ==
    (last.op = "init" /\ last.ret = RET_SUCCESS) =>
        /\ s_listening_tcp_port # 0
        /\ s_listening_tcp_port = last.args[1]

\* A step that is a call of jtag_dpi_terminate.
TerminateCalled == last'.op \in {"terminate", "abort"}

\* C16, as stated: jtag_dpi_terminate on an initialized module closes the
\* listening socket and the connection, in whatever state the connection is,
\* and clears the initialization flag, so that an init with valid arguments
\* that follows succeeds (if the listening socket can be created) and a tick
\* that follows fails; on a module that is not initialized it changes nothing
\* and the process goes on.
C16_Original ==
    [][/\ (s_already_initialized /\ TerminateCalled) =>
              /\ last'.op = "terminate"
              /\ ~s_already_initialized'
              /\ s_listeningSocket' = NoSocket
              /\ s_connectionSocket' = NoSocket
              /\ client' = "none"
       /\ (~s_already_initialized /\ TerminateCalled) =>
              /\ last'.op = "terminate"
              /\ UNCHANGED <<server, client, rx, peerClosed>>
       /\ (last.op = "terminate" /\ last'.op = "init"
              /\ ~RejectedArgs(last'.args) /\ ~last'.listenFailed) =>
              last'.ret = RET_SUCCESS /\ s_already_initialized'
       /\ (last.op = "terminate" /\ last'.op = "tick") =>
              last'.ret = RET_FAILURE]_vars

\* The entries of a log that stand for a byte read from the socket.
BytesRead(ev) == SelectSeq(ev, LAMBDA e : e.b >= 0)

\* The step is a tick that attempts the pending notification.
NotificationTick ==
    /\ Connected /\ AwaitingClockNotification
    /\ last'.op = "tick"
    /\ last'.ev # <<>> /\ last'.ev[1].kind = "notify"

\* C17: the receive loop stops right after the 0x81 that starts a wait; a
\* tick spent waiting reads nothing, so the bytes queued behind stay queued;
\* the tick that attempts the notification reads them in the order they were
\* sent, and what it does not read is still queued, or dropped with the
\* connection.
C17_NoReadWhileWaiting ==
    /\ [](\A k \in Events :
             (last.ev[k].kind = "clk"
                 /\ last.ev[k].st = cs_waiting_to_send_clock_notification) =>
                 k = Len(last.ev) /\ Connected /\ AwaitingClockNotification)
    /\ [][(Connected /\ AwaitingClockNotification /\ last'.op = "tick"
              /\ ~NotificationTick) =>
              /\ last'.ev = <<>>
              /\ UNCHANGED <<rx, peerClosed, client, s_connectionSocket,
                             s_connectionState>>]_vars
    /\ [][NotificationTick =>
              LET read == BytesRead(last'.ev)
              IN /\ Len(read) <= Len(rx)
                 /\ \A k \in 1..Len(read) : read[k].b = rx[k]
                 /\ SubSeq(rx, Len(read) + 1, Len(rx)) =
                        IF s_connectionSocket' # NoSocket THEN rx' ELSE last'.lost]_vars

\* One tick into a wait of two, the signal byte and the 0x81 the client sent
\* behind the first 0x81 are still queued.
C17_Witness ==
    /\ Connected /\ AwaitingClockNotification
    /\ last.op = "tick" /\ last.ev = <<>>
    /\ reqCount = 2 /\ reqAge = 1
    /\ rx = <<14, 129>>

\* The step is a tick that sends the pending notification.
NotificationSent == NotificationTick /\ ~SendFailed(last'.ev[1])

\* The notification itself: sent with the counter at 0, as the first thing the
\* tick does, and it puts the connection into AwaitingCommands.
NotificationFirst ==
    /\ last'.ev[1].cnt0 = 0
    /\ last'.ev[1].reply = <<CLOCK_NOTIFICATION_MSG>>
    /\ last'.ev[1].st0 = cs_waiting_to_send_clock_notification
    /\ last'.ev[1].st = cs_waiting_to_receive_commands
    /\ \A k \in 2..Len(last'.ev) : last'.ev[k].kind # "notify"

\* C18, as amended: the tick that sends the notification sends 0xFF first,
\* returns to AwaitingCommands and reads the queued bytes in that same tick,
\* as the receive loop always does: all of them, or up to and including the
\* first one that ends the loop (a 0x81 that starts a new wait, an invalid
\* byte, a failed send() or recv()).
C18_DrainAfterNotification ==
    [][NotificationSent =>
           /\ NotificationFirst
           /\ LET read == BytesRead(last'.ev)
                  e == last'.ev[Len(last'.ev)]
              IN \/ Len(read) = Len(rx) /\ last'.lost = <<>>
                 \/ e.kind = "clk" /\ e.st = cs_waiting_to_send_clock_notification
                 \/ e.err]_vars

\* The notification tick sent 0xFF, then answered the queued 0x80 and wrote
\* the queued signal byte: nothing is left in the queue.
C18_Witness ==
    /\ Len(last.ev) = 3
    /\ last.ev[1].kind = "notify" /\ last.ev[1].reply = <<CLOCK_NOTIFICATION_MSG>>
    /\ last.ev[2].kind = "tdo" /\ last.ev[2].reply # <<>>
    /\ last.ev[3].kind = "data" /\ last.ev[3].reply # <<>>
    /\ Connected /\ AwaitingCommands
    /\ rx = <<>>

\* A send() or recv() of the step's tick failed.
TransportFault ==
    \E k \in 1..Len(last'.ev) : last'.ev[k].kind = "rerr" \/ SendFailed(last'.ev[k])

\* C18, as stated: the tick that sends the notification sends 0xFF first,
\* returns to AwaitingCommands and processes every byte that was queued
\* (provided no send() or recv() of the tick fails).
C18_Original ==
    [][(NotificationSent /\ ~TransportFault) =>
           /\ NotificationFirst
           /\ Len(BytesRead(last'.ev)) = Len(rx)]_vars

\* C19: a connection that exists is in AwaitingCommands or in
\* AwaitingClockNotification, and a connection starts in AwaitingCommands
\* whatever the connection before it left behind: the tick that accepted it
\* processes its first byte in AwaitingCommands, and leaves it there if there
\* was nothing to process.
C19_StartsAwaitingCommands ==
    /\ Connected =>
           s_connectionState \in {cs_waiting_to_receive_commands,
                                  cs_waiting_to_send_clock_notification}
    /\ (last.op = "tick" /\ last.accepted) =>
           IF last.ev = <<>>
           THEN Connected /\ AwaitingCommands
           ELSE last.ev[1].st0 = cs_waiting_to_receive_commands

\* The connection before was dropped while it waited for its notification
\* (the send() of 0xFF failed); the tick that accepted the next client found
\* that state and left the new connection in AwaitingCommands.
C19_Witness ==
    /\ last.op = "tick" /\ last.accepted
    /\ last.found = cs_waiting_to_send_clock_notification
    /\ last.ev = <<>>
    /\ Connected /\ AwaitingCommands

\* C20, as stated: on an initialized module without a connection the
\* connection state is cs_invalid.
C20_Original ==
    (s_already_initialized /\ s_connectionSocket = NoSocket) =>
        s_connectionState = cs_invalid

\* The signal-data entries of a log.
SignalWrites(ev) == SelectSeq(ev, LAMBDA e : e.kind = "data")

\* C21: a tick that starts in AwaitingCommands reads the queued bytes in the
\* order they were sent, all of them (to the would-block or the peer's close
\* behind them) or up to and including the first invalid byte or 0x81 that
\* starts a wait (or the first send() or recv() that fails); the outputs after
\* the tick are those of the last signal-data byte it read; and every byte is
\* read in AwaitingCommands, so that no second wait is started while one is
\* pending.
C21_DrainInOneTick ==
    /\ [](\A k \in Events : last.ev[k].b >= 0 =>
                 last.ev[k].st0 = cs_waiting_to_receive_commands)
    /\ [][(Connected /\ AwaitingCommands /\ last'.op = "tick") =>
              LET read == BytesRead(last'.ev)
                  writes == SignalWrites(last'.ev)
                  n == Len(last'.ev)
              IN /\ Len(read) <= Len(rx)
                 /\ \A k \in 1..Len(read) : read[k].b = rx[k]
                 /\ \/ /\ Len(read) = Len(rx)
                       /\ (peerClosed /\ ~TransportFault) =>
                              last'.ev[n].kind = "eof" /\ s_connectionSocket' = NoSocket
                    \/ last'.ev[n].kind = "bad"
                    \/ /\ last'.ev[n].kind = "clk"
                       /\ last'.ev[n].st = cs_waiting_to_send_clock_notification
                    \/ TransportFault
                 /\ IF writes = <<>>
                    THEN UNCHANGED <<jtag_tms, jtag_tck, jtag_trst, jtag_tdi>>
                    ELSE LET b == writes[Len(writes)].b
                         IN /\ jtag_tck' = b % 2
                            /\ jtag_trst' = (b \div 2) % 2
                            /\ jtag_tdi' = (b \div 4) % 2
                            /\ jtag_tms' = (b \div 8) % 2]_vars

\* A tick found 0x0E and 0x01 queued and processed both: the queue is empty
\* and the outputs are those of 0x01.
C21_Witness ==
    /\ Len(last.ev) = 2
    /\ last.ev[1].b = 14 /\ last.ev[1].reply = <<30>>
    /\ last.ev[2].b = 1 /\ last.ev[2].reply = <<17>>
    /\ rx = <<>>
    /\ Connected /\ AwaitingCommands
    /\ jtag_tms = 0 /\ jtag_tck = 1 /\ jtag_trst = 0 /\ jtag_tdi = 0

\* What is sent for one entry of a log when no send() fails: b | 0x10 for a
\* signal-data byte, 0 or 1 for 0x80, 0xFF for a 0x81 that finds the counter
\* at 0 and for the notification of a pending wait, nothing otherwise.
ExpectedReply(e) ==
    CASE e.kind = "data" -> <<e.b + 16>>
      [] e.kind = "tdo" -> <<IF last.tdo = 0 THEN 0 ELSE 1>>
      [] e.kind = "clk" /\ e.cnt0 = 0 -> <<CLOCK_NOTIFICATION_MSG>>
      [] e.kind = "notify" -> <<CLOCK_NOTIFICATION_MSG>>
      [] OTHER -> <<>>

\* Every byte sent is the reply to a byte received, in the order received.
RepliesInOrder ==
    \A k \in Events :
        LET e == last.ev[k]
        IN /\ e.reply = IF SendFailed(e) THEN <<>> ELSE ExpectedReply(e)
           /\ e.kind = "notify" =>
                  /\ k = 1
                  /\ e.st0 = cs_waiting_to_send_clock_notification
                  /\ e.reqCount # 0

\* C22, as stated: on a live connection every byte sent is the reply to a
\* valid byte received, replies are sent in the order of the bytes, and every
\* valid byte gets its reply: at once, or for a 0x81 that has to wait, in a
\* later tick.
C22_Original ==
    /\ []RepliesInOrder
    /\ (Connected /\ AwaitingClockNotification) ~> (Logged("notify") \/ ~Connected)

\* The step's tick serves a connection: one it had, or one it accepts.
ServesConnection ==
    /\ last'.op = "tick"
    /\ s_already_initialized
    /\ s_connectionSocket # NoSocket \/ last'.accepted

\* C23: the clock notification counter changes only in a tick that serves a
\* connection; init, terminate, a tick without a connection and the client's
\* own steps leave it as it is, so the connection a tick accepts starts from
\* the count the previous one left, less the decrement of its first tick.
C23_CounterInherited ==
    [][/\ ~ServesConnection => UNCHANGED s_clock_notification_counter
       /\ (last'.op = "tick" /\ last'.accepted) =>
              LET c == s_clock_notification_counter
                  start == IF c > 0 THEN c - 1 ELSE c
              IN IF last'.ev = <<>>
                 THEN s_clock_notification_counter' = start
                 ELSE last'.ev[1].cnt0 = start]_vars

\* After a session with half-period 2, a terminate and an init with
\* half-period 1, the tick that accepted the next client read its first byte,
\* 0x81, with the counter at 1: the client waits though it wrote no signal.
C23_Witness ==
    /\ last.op = "tick" /\ last.accepted
    /\ Len(last.ev) = 1
    /\ last.ev[1].kind = "clk" /\ last.ev[1].cnt0 = 1 /\ last.ev[1].reply = <<>>
    /\ last.ev[1].since = -1
    /\ s_jtag_tck_half_period_tick_count = 1
    /\ Connected /\ AwaitingClockNotification

====
